---- MODULE Spec2Model ----
(***************************************************************************)
(* kac-ca-injector: the /mutate admission webhook of src/src/app.py.       *)
(*                                                                         *)
(* JSON documents are TLA+ functions: a dict is a function over its keys   *)
(* (a record), a list is a sequence.  A key is absent when it is not in    *)
(* the DOMAIN.  The handler runs on one thread per request; the threads    *)
(* interleave at the blocking calls (ConfigMap read, bundle fetch,         *)
(* ConfigMap create).  The transport encoding of the patch (str(), base64) *)
(* is not modelled: the response carries the JsonPatch operation list.     *)
(***************************************************************************)
EXTENDS Integers, Sequences, FiniteSets, TLC

VARIABLES scenario,    \* which clients drive the webhook (see Inputs)
          configmaps,  \* the cluster: the set of ConfigMap objects
          pc,          \* per handler thread: idle / read / fetch / create / done
          request,     \* per thread: request.json['request'] (uid, object)
          calls,       \* per thread: the outgoing calls made so far, with their answers
          ca_bundle,   \* per thread: the decoded bundle, while create_configmap runs
          result       \* per thread: the HTTP answer of the handler

vars == <<scenario, configmaps, pc, request, calls, ca_bundle, result>>

----------------------------------------------------------------------------
(* Bounds *)

MaxThreads == 2      \* handler threads serving requests concurrently
MaxVolumes == 1      \* existing entries of spec.volumes
MaxInit == 1         \* entries of spec.initContainers
MaxContainers == 2   \* entries of spec.containers

Reqs == 1..MaxThreads

----------------------------------------------------------------------------
(* Configuration: the four environment values read at import time *)

configmap_name == "ca-bundle-cm"
ca_bundle_filename == "ca.pem"
ca_bundle_annotation == "ca-injector/enabled"

\* A JSON value that is the boolean true, not a string.
JSON_TRUE == "<json:true>"

Has(d, k) == k \in DOMAIN d

----------------------------------------------------------------------------
(* Decimal tokens, as JSON Pointer writes list indexes *)

Digits == <<"0", "1", "2", "3", "4", "5", "6", "7", "8", "9">>

RECURSIVE ToToken(_)
ToToken(i) == IF i < 10 THEN Digits[i + 1]
              ELSE ToToken(i \div 10) \o Digits[(i % 10) + 1]

FromToken(tok) == CHOOSE i \in 0..99 : ToToken(i) = tok

----------------------------------------------------------------------------
(* The objects a client may send *)

Namespaces == {"ns1", "ns2"}
UIDs == {"uid-1", "uid-2"}

ExistingMounts == << [name |-> "data", mountPath |-> "/data"],
                     [name |-> "tmp", mountPath |-> "/tmp"],
                     [name |-> "logs", mountPath |-> "/logs"],
                     [name |-> "cache", mountPath |-> "/cache"] >>

\* Variant 0 has no volumeMounts key; variant k > 0 has k-1 existing mounts.
ContainerWith(name, k) ==
    IF k = 0 THEN [name |-> name]
    ELSE [name |-> name, volumeMounts |-> SubSeq(ExistingMounts, 1, k - 1)]

Containers(n) == [i \in 1..n |-> ContainerWith("app-" \o ToToken(i), i - 1)]
InitContainers(n) == [i \in 1..n |-> ContainerWith("init-" \o ToToken(i), i + 1)]
Volumes(n) == [i \in 1..n |-> [name |-> "vol-" \o ToToken(i), emptyDir |-> <<>>]]

Optional(key, values) == {<<>>} \cup {key :> v : v \in values}

SpecBodies ==
    { v @@ i @@ c :
        v \in Optional("volumes", {Volumes(n) : n \in 0..MaxVolumes}),
        i \in Optional("initContainers", {InitContainers(n) : n \in 0..MaxInit}),
        c \in Optional("containers", {Containers(n) : n \in 0..MaxContainers}) }

Annotations == { <<>>,
                 ca_bundle_annotation :> "true",
                 ca_bundle_annotation :> "True",
                 ca_bundle_annotation :> JSON_TRUE,
                 "other/annotation" :> "true" }

Metadatas ==
    { [labels |-> <<>>] }
    \cup { [annotations |-> a] : a \in Annotations }
    \cup { [annotations |-> a, namespace |-> n] : a \in Annotations, n \in Namespaces }

\* Every shape of document, well-formed or not.
Documents ==
    { m @@ s : m \in Optional("metadata", Metadatas), s \in Optional("spec", SpecBodies) }

\* Every request over every shape of document.
DocumentRequests == { [uid |-> u, object |-> d] : u \in UIDs, d \in Documents }

Pod(annotations, namespace) ==
    [metadata |-> [annotations |-> annotations, namespace |-> namespace],
     spec |-> [containers |-> Containers(1)]]

\* Well-formed pods, as the API server sends them while pods are created in
\* two namespaces.
PodRequests ==
    { [uid |-> "uid-1", object |-> Pod(ca_bundle_annotation :> "true", "ns1")],
      [uid |-> "uid-2", object |-> Pod(ca_bundle_annotation :> "true", "ns2")],
      [uid |-> "uid-3", object |-> Pod(ca_bundle_annotation :> "True", "ns1")] }

Inputs == IF scenario = "concurrent" THEN PodRequests ELSE DocumentRequests
Threads == IF scenario = "concurrent" THEN Reqs ELSE {1}

----------------------------------------------------------------------------
(* mutate: the annotation gate and the planner *)

\* Line 45 subscripts metadata and annotations: a missing key is a KeyError.
GateRaises(o) == ~Has(o, "metadata") \/ ~Has(o.metadata, "annotations")

\* Bug variant: the value is compared without regard to case.
TriggeredIgnoreCase(o) ==
    /\ Has(o.metadata.annotations, ca_bundle_annotation)
    /\ o.metadata.annotations[ca_bundle_annotation] \in {"true", "True"}

\* Bug variant: any value of the annotation triggers.
TriggeredTruthy(o) == Has(o.metadata.annotations, ca_bundle_annotation)

\* Line 45: annotations.get(ca_bundle_annotation) == 'true'
Triggered(o) ==
    /\ Has(o.metadata.annotations, ca_bundle_annotation)
    /\ o.metadata.annotations[ca_bundle_annotation] = "true"

\* Line 46 subscripts metadata.namespace.
NamespaceRaises(o) == ~Has(o.metadata, "namespace")

volume == [name |-> "ca-bundle",
           configMap |-> [name |-> configmap_name, defaultMode |-> 420]]

volume_mount == [name |-> "ca-bundle",
                 mountPath |-> "/etc/ssl/certs/" \o ca_bundle_filename,
                 subPath |-> ca_bundle_filename]

\* Bug variant: the mount is inserted in front of the existing ones.
AddMountFirst(c) ==
    IF Has(c, "volumeMounts")
    THEN [c EXCEPT !["volumeMounts"] = <<volume_mount>> \o @]
    ELSE ("volumeMounts" :> <<volume_mount>>) @@ c

\* Lines 75-78 and 81-84: the body of both container loops.
AddMount(c) ==
    IF Has(c, "volumeMounts")
    THEN [c EXCEPT !["volumeMounts"] = Append(@, volume_mount)]
    ELSE ("volumeMounts" :> <<volume_mount>>) @@ c

\* Lines 68 and 80 subscript spec and spec.containers.
PlanRaises(o) == ~Has(o, "spec") \/ ~Has(o.spec, "containers")

AddVolume(s) ==
    IF Has(s, "volumes")
    THEN [s EXCEPT !["volumes"] = Append(@, volume)]
    ELSE ("volumes" :> <<volume>>) @@ s

AddInitMounts(s) ==
    IF Has(s, "initContainers")
    THEN [s EXCEPT !["initContainers"] = [i \in DOMAIN @ |-> AddMount(@[i])]]
    ELSE s

AddContainerMounts(s) ==
    [s EXCEPT !["containers"] = [i \in DOMAIN @ |-> AddMount(@[i])]]

\* Lines 55-84: modified_spec once the three steps ran (defined when
\* PlanRaises is false).
Plan(o) == [o EXCEPT !["spec"] = AddContainerMounts(AddInitMounts(AddVolume(@)))]

----------------------------------------------------------------------------
(* jsonpatch.JsonPatch.from_diff(spec, modified_spec), line 86 *)

\* What sits at a path of the document: the diff recurses into dicts and
\* lists and replaces anything else.
Kind(path) ==
    CASE Len(path) = 0 -> "dict"
      [] Len(path) = 1 -> "dict"
      [] Len(path) = 2 /\ path[1] = "metadata"
             -> IF path[2] \in {"annotations", "labels"} THEN "dict" ELSE "leaf"
      [] Len(path) = 2 /\ path[1] = "spec" -> "list"
      [] Len(path) = 3 /\ path[1] = "spec" /\ path[2] \in {"containers", "initContainers"}
             -> "dict"
      [] Len(path) = 4 /\ path[1] = "spec" /\ path[4] = "volumeMounts" -> "list"
      [] OTHER -> "leaf"

\* The library walks Python sets of keys, whose order is arbitrary: one order
\* is fixed here.  The operations of one diff touch distinct keys, so the
\* patched document does not depend on it.
RECURSIVE SetToSeq(_)
SetToSeq(S) == IF S = {} THEN <<>>
               ELSE LET k == CHOOSE k \in S : TRUE IN <<k>> \o SetToSeq(S \ {k})

Max(a, b) == IF a > b THEN a ELSE b
Min(a, b) == IF a < b THEN a ELSE b

AddOp(path, value) == [op |-> "add", path |-> path, value |-> value]
RemoveOp(path) == [op |-> "remove", path |-> path]
ReplaceOp(path, value) == [op |-> "replace", path |-> path, value |-> value]

RECURSIVE Diff(_, _, _), DiffKeys(_, _, _, _), DiffItems(_, _, _, _)

\* _compare_values
Diff(path, src, dst) ==
    IF src = dst THEN <<>>
    ELSE IF Kind(path) = "dict" THEN
        LET removed == SetToSeq(DOMAIN src \ DOMAIN dst)
            added == SetToSeq(DOMAIN dst \ DOMAIN src)
            common == SetToSeq(DOMAIN src \cap DOMAIN dst)
        IN  [i \in DOMAIN removed |-> RemoveOp(Append(path, removed[i]))]
            \o [i \in DOMAIN added |-> AddOp(Append(path, added[i]), dst[added[i]])]
            \o DiffKeys(path, src, dst, common)
    ELSE IF Kind(path) = "list" THEN DiffItems(path, src, dst, 1)
    ELSE <<ReplaceOp(path, dst)>>

\* _compare_dicts, the keys both sides have
DiffKeys(path, src, dst, keys) ==
    IF keys = <<>> THEN <<>>
    ELSE Diff(Append(path, Head(keys)), src[Head(keys)], dst[Head(keys)])
         \o DiffKeys(path, src, dst, Tail(keys))

\* _compare_lists, from the i-th item on
DiffItems(path, src, dst, i) ==
    IF i > Max(Len(src), Len(dst)) THEN <<>>
    ELSE LET at == Append(path, ToToken(i - 1))
             here ==
                IF i <= Min(Len(src), Len(dst)) THEN
                    IF src[i] = dst[i] THEN <<>>
                    ELSE IF Kind(at) = "leaf"
                         THEN <<RemoveOp(at), AddOp(at, dst[i])>>
                         ELSE Diff(at, src[i], dst[i])
                ELSE IF Len(src) > Len(dst)
                     THEN <<RemoveOp(Append(path, ToToken(Len(dst))))>>
                     ELSE <<AddOp(at, dst[i])>>
         IN  here \o DiffItems(path, src, dst, i + 1)

----------------------------------------------------------------------------
(* Applying a JSON Patch (RFC 6902), as the API server does with the answer *)

InsertAt(s, i, v) == SubSeq(s, 1, i - 1) \o <<v>> \o SubSeq(s, i, Len(s))
RemoveAt(s, i) == SubSeq(s, 1, i - 1) \o SubSeq(s, i + 1, Len(s))

RECURSIVE Edit(_, _, _, _)
Edit(node, prefix, rest, op) ==
    LET tok == Head(rest)
        below == Append(prefix, tok)
    IN  IF Kind(prefix) = "list" THEN
            LET i == FromToken(tok) + 1 IN
            IF Len(rest) > 1
            THEN [node EXCEPT ![i] = Edit(@, below, Tail(rest), op)]
            ELSE CASE op.op = "add" -> InsertAt(node, i, op.value)
                   [] op.op = "remove" -> RemoveAt(node, i)
                   [] op.op = "replace" -> [node EXCEPT ![i] = op.value]
        ELSE
            IF Len(rest) > 1
            THEN [node EXCEPT ![tok] = Edit(@, below, Tail(rest), op)]
            ELSE CASE op.op = "remove" -> [k \in DOMAIN node \ {tok} |-> node[k]]
                   [] OTHER -> (tok :> op.value) @@ node

RECURSIVE ApplyPatch(_, _)
ApplyPatch(doc, patch) ==
    IF patch = <<>> THEN doc
    ELSE ApplyPatch(Edit(doc, <<>>, Head(patch).path, Head(patch)), Tail(patch))

----------------------------------------------------------------------------
(* The collaborators: the cluster API and the remote bundle source *)

ConfigMap(namespace, data) ==
    [namespace |-> namespace, name |-> configmap_name,
     data |-> (ca_bundle_filename :> data)]

Exists(namespace) ==
    \E cm \in configmaps : cm.namespace = namespace /\ cm.name = configmap_name

\* Calls fail at the HTTP level only: an ApiException of the cluster API, a
\* non-success status of the bundle source.
\* HTTP statuses, by what they mean to the handler.
OK == "200 OK"
CREATED == "201 Created"
NOT_FOUND == "404 Not Found"
CONFLICT == "409 Conflict"
SERVER_ERROR == "500 Internal Server Error"

\* read_namespaced_config_map: the true answer, or a failed call.
ReadAnswers(namespace) ==
    (IF Exists(namespace) THEN {OK} ELSE {NOT_FOUND}) \cup {SERVER_ERROR}

\* create_namespaced_config_map: the API server rejects a second object of
\* the same name in a namespace.
CreateAnswers(namespace) ==
    (IF Exists(namespace) THEN {CONFLICT} ELSE {CREATED}) \cup {SERVER_ERROR}

FetchStatuses == {OK, SERVER_ERROR}

\* Bodies the remote source may send, as byte sequences.
Contents == { <<65>>, <<66>>, <<195, 169>> }

\* bytes.decode('ascii') raises on any byte above 127.
DecodeRaises(content) == \E i \in DOMAIN content : content[i] > 127

----------------------------------------------------------------------------
(* The handler *)

NoRequest == <<>>
NoResult == [status |-> "none"]

Raise(exception) == [status |-> SERVER_ERROR, error |-> exception]

\* Lines 86-96
Respond(req, modified_spec) ==
    [status |-> OK,
     response |-> [allowed |-> TRUE,
                   uid |-> req.uid,
                   patch |-> Diff(<<>>, req.object, modified_spec),
                   patchType |-> "JSONPatch"]]

\* Lines 55-96, once the ConfigMap is provisioned.
MutateAndRespond(req) ==
    IF PlanRaises(req.object) THEN Raise("KeyError")
    ELSE Respond(req, Plan(req.object))

\* Bug variant: create_configmap runs whatever the read answered.
ReadRaisesAlways(answer) == TRUE

\* Bug variant: the status of the fetch is not looked at.
FetchRaisesNever(status) == FALSE

\* Bug variant: every ApiException of the create call is swallowed.
CreateRaisesNever(answer) == FALSE

\* Lines 50-53: what follows the read.
ReadRaises(answer) == answer # OK

\* Line 22
FetchRaises(status) == status # OK

\* Lines 27-37: any ApiException of the create call leaves create_configmap.
CreateRaises(answer) == answer # CREATED

Call(name, answer) == [call |-> name, answer |-> answer]

Return(r, res) ==
    /\ pc' = [pc EXCEPT ![r] = "done"]
    /\ result' = [result EXCEPT ![r] = res]

Init ==
    /\ scenario = "concurrent"
    /\ configmaps = {}
    /\ pc = [r \in Reqs |-> "idle"]
    /\ request = [r \in Reqs |-> NoRequest]
    /\ calls = [r \in Reqs |-> <<>>]
    /\ ca_bundle = [r \in Reqs |-> <<>>]
    /\ result = [r \in Reqs |-> NoResult]

InitDocs ==
    /\ scenario = "documents"
    /\ configmaps = {}
    /\ pc = [r \in Reqs |-> "idle"]
    /\ request = [r \in Reqs |-> NoRequest]
    /\ calls = [r \in Reqs |-> <<>>]
    /\ ca_bundle = [r \in Reqs |-> <<>>]
    /\ result = [r \in Reqs |-> NoResult]

\* Lines 42-48: a request arrives; the gate decides.
Receive(r) ==
    /\ r \in Threads
    /\ pc[r] = "idle"
    /\ \E req \in Inputs :
        LET object == req.object IN
        /\ request' = [request EXCEPT ![r] = req]
        /\ IF GateRaises(object) THEN Return(r, Raise("KeyError"))
           ELSE IF ~Triggered(object) THEN Return(r, Respond(req, object))
           ELSE IF NamespaceRaises(object) THEN Return(r, Raise("KeyError"))
           ELSE pc' = [pc EXCEPT ![r] = "read"] /\ UNCHANGED result
    /\ UNCHANGED <<scenario, configmaps, calls, ca_bundle>>

\* Lines 50-53: the existence read.
Read(r) ==
    /\ pc[r] = "read"
    /\ \E answer \in ReadAnswers(request[r].object.metadata.namespace) :
        /\ calls' = [calls EXCEPT ![r] = Append(@, Call("read", answer))]
        /\ IF ReadRaises(answer)
           THEN pc' = [pc EXCEPT ![r] = "fetch"] /\ UNCHANGED result
           ELSE Return(r, MutateAndRespond(request[r]))
    /\ UNCHANGED <<scenario, configmaps, request, ca_bundle>>

\* Lines 20-25: create_configmap fetches and decodes the bundle.
Fetch(r) ==
    /\ pc[r] = "fetch"
    /\ \E status \in FetchStatuses, content \in Contents :
        /\ calls' = [calls EXCEPT ![r] = Append(@, Call("fetch", status))]
        /\ IF FetchRaises(status)
           THEN Return(r, Raise("Exception")) /\ UNCHANGED ca_bundle
           ELSE IF DecodeRaises(content)
           THEN Return(r, Raise("UnicodeDecodeError")) /\ UNCHANGED ca_bundle
           ELSE /\ ca_bundle' = [ca_bundle EXCEPT ![r] = content]
                /\ pc' = [pc EXCEPT ![r] = "create"]
                /\ UNCHANGED result
    /\ UNCHANGED <<scenario, configmaps, request>>

\* Lines 27-37, then 55-96.
Create(r) ==
    /\ pc[r] = "create"
    /\ LET namespace == request[r].object.metadata.namespace IN
       \E answer \in CreateAnswers(namespace) :
        /\ calls' = [calls EXCEPT ![r] = Append(@, Call("create", answer))]
        /\ configmaps' = IF answer = CREATED
                         THEN configmaps \cup {ConfigMap(namespace, ca_bundle[r])}
                         ELSE configmaps
        /\ IF CreateRaises(answer)
           THEN Return(r, Raise("ApiException"))
           ELSE Return(r, MutateAndRespond(request[r]))
        /\ ca_bundle' = [ca_bundle EXCEPT ![r] = <<>>]
    /\ UNCHANGED <<scenario, request>>

\* The answer is sent; the thread takes the next request.
Close(r) ==
    /\ pc[r] = "done"
    /\ pc' = [pc EXCEPT ![r] = "idle"]
    /\ request' = [request EXCEPT ![r] = NoRequest]
    /\ calls' = [calls EXCEPT ![r] = <<>>]
    /\ ca_bundle' = [ca_bundle EXCEPT ![r] = <<>>]
    /\ result' = [result EXCEPT ![r] = NoResult]
    /\ UNCHANGED <<scenario, configmaps>>

Next == \E r \in Reqs : Receive(r) \/ Read(r) \/ Fetch(r) \/ Create(r) \/ Close(r)

Spec == Init /\ [][Next]_vars
SpecDocs == InitDocs /\ [][Next]_vars

----------------------------------------------------------------------------
(* Vocabulary of the properties *)

\* The object carries the trigger annotation with the exact string "true".
CarriesTrigger(o) ==
    /\ Has(o, "metadata")
    /\ Has(o.metadata, "annotations")
    /\ Has(o.metadata.annotations, ca_bundle_annotation)
    /\ o.metadata.annotations[ca_bundle_annotation] = "true"

\* The handler returned an AdmissionReview.
Answered(r) == pc[r] = "done" /\ result[r].status = OK

\* The returned patch adds the ca-bundle volume.
Mutating(r) ==
    \E i \in DOMAIN result[r].response.patch :
        LET o == result[r].response.patch[i] IN
        /\ o.op = "add"
        /\ Len(o.path) >= 2 /\ o.path[1] = "spec" /\ o.path[2] = "volumes"

Made(r, call) == \E i \in DOMAIN calls[r] : calls[r][i] = call
Issued(r, name) == \E i \in DOMAIN calls[r] : calls[r][i].call = name

\* The read found the ConfigMap or the create succeeded.
Provisioned(r) == Made(r, Call("read", OK)) \/ Made(r, Call("create", CREATED))

NamespaceOf(r) == request[r].object.metadata.namespace

OrEmpty(d, k) == IF Has(d, k) THEN d[k] ELSE <<>>

\* new is old with exactly one entry, named ca-bundle, added at the end.
CaBundleAppended(old, new) ==
    /\ Len(new) = Len(old) + 1
    /\ SubSeq(new, 1, Len(old)) = old
    /\ new[Len(new)].name = "ca-bundle"

MountAppended(c, d) ==
    /\ DOMAIN d = DOMAIN c \cup {"volumeMounts"}
    /\ \A k \in DOMAIN c \ {"volumeMounts"} : d[k] = c[k]
    /\ CaBundleAppended(OrEmpty(c, "volumeMounts"), d.volumeMounts)
    /\ d.volumeMounts[Len(d.volumeMounts)].mountPath
           = "/etc/ssl/certs/" \o ca_bundle_filename

InjectedInto(o, new) ==
    /\ DOMAIN new = DOMAIN o
    /\ \A k \in DOMAIN o \ {"spec"} : new[k] = o[k]
    /\ DOMAIN new.spec = DOMAIN o.spec \cup {"volumes"}
    /\ CaBundleAppended(OrEmpty(o.spec, "volumes"), new.spec.volumes)
    /\ \A k \in DOMAIN o.spec \cap {"containers", "initContainers"} :
        /\ Len(new.spec[k]) = Len(o.spec[k])
        /\ \A i \in DOMAIN o.spec[k] : MountAppended(o.spec[k][i], new.spec[k][i])

----------------------------------------------------------------------------
(* Properties *)

\* C1: whenever the handler answers a request whose object carries the
\* trigger annotation "true", the returned patch applied to the original
\* object gives the original with one ca-bundle volume appended to
\* spec.volumes and one ca-bundle mount at /etc/ssl/certs/<filename> appended
\* to the volumeMounts of every container and init container; the existing
\* entries keep their order and nothing else changes.
C1_PatchAppendsVolumeAndMounts ==
    \A r \in Reqs :
        (Answered(r) /\ CarriesTrigger(request[r].object))
        => InjectedInto(request[r].object,
                        ApplyPatch(request[r].object, result[r].response.patch))

C1_Witness ==
    \E r \in Reqs :
        /\ Answered(r) /\ CarriesTrigger(request[r].object)
        /\ Has(request[r].object.spec, "volumes")
        /\ Len(request[r].object.spec.volumes) >= 1
        /\ Has(request[r].object.spec, "initContainers")
        /\ \E i \in DOMAIN request[r].object.spec.initContainers :
             Len(OrEmpty(request[r].object.spec.initContainers[i], "volumeMounts")) >= 1
        /\ Len(request[r].object.spec.containers) >= 2

C3_MutationImpliesConfigMap ==
    \A r \in Reqs :
        /\ (Answered(r) /\ Mutating(r)) => (Exists(NamespaceOf(r)) /\ Provisioned(r))
        /\ (pc[r] = "done" /\ calls[r] # <<>> /\ ~Provisioned(r)) => result[r].status # OK

C3_Witness ==
    \E r \in Reqs :
        /\ Answered(r) /\ Mutating(r)
        /\ Made(r, Call("create", CREATED))

\* C4 (as claimed): a request that read not-found and whose create the API
\* server rejected as already existing completes with a mutating patch.
C4_ConflictIsSuccess ==
    \A r \in Reqs :
        (/\ pc[r] = "done"
         /\ Made(r, Call("read", NOT_FOUND))
         /\ Made(r, Call("create", CONFLICT)))
        => (result[r].status = OK /\ Mutating(r))

\* C5 (as claimed): a read that fails with an error other than not-found
\* ends the request with an error, and neither the fetch nor a create is
\* attempted.
C5_LookupErrorStops ==
    \A r \in Reqs :
        Made(r, Call("read", SERVER_ERROR))
        => /\ pc[r] = "done"
           /\ result[r].status # OK
           /\ ~Issued(r, "fetch")
           /\ ~Issued(r, "create")

\* C6: a request whose bundle fetch answered a non-success status has
\* ended with the fetch error, has issued no create call and has returned
\* no response.
C6_FetchFailureStops ==
    \A r \in Reqs :
        (\E i \in DOMAIN calls[r] : calls[r][i].call = "fetch" /\ calls[r][i].answer # OK)
        => /\ pc[r] = "done"
           /\ result[r].status # OK
           /\ result[r].error = "Exception"
           /\ ~Issued(r, "create")

C6_Witness ==
    \E r \in Reqs :
        /\ calls[r] = <<Call("read", NOT_FOUND), Call("fetch", SERVER_ERROR)>>
        /\ pc[r] = "done"
        /\ \E q \in Reqs \ {r} : pc[q] = "create"

\* C7: a request whose read finds the ConfigMap (an earlier request has
\* provisioned the namespace) is a no-op for the cluster: it issues no fetch
\* and no create, raises no provisioning error, leaves the cluster as it
\* was, and exactly one ConfigMap of that name is in the namespace.
C7_SecondEnsureIsNoOp ==
    /\ [](\A r \in Reqs :
            Made(r, Call("read", OK))
            => /\ calls[r] = <<Call("read", OK)>>
               /\ pc[r] = "done"
               /\ (result[r].status = OK \/ result[r].error = "KeyError")
               /\ Cardinality({cm \in configmaps :
                     cm.namespace = NamespaceOf(r) /\ cm.name = configmap_name}) = 1)
    /\ [][\A r \in Reqs :
            (calls[r] = <<>> /\ calls'[r] = <<Call("read", OK)>>)
            => configmaps' = configmaps]_vars

C7_Witness ==
    \E r \in Reqs :
        /\ Answered(r)
        /\ calls[r] = <<Call("read", OK)>>
        /\ \A q \in Reqs \ {r} : pc[q] = "idle"

\* C8 (as claimed): a triggered request whose object has no spec.containers
\* is answered, with the ca-bundle volume added, once the ConfigMap is
\* provisioned.
C8_NoContainersIsAnswered ==
    \A r \in Reqs :
        (/\ pc[r] = "done"
         /\ CarriesTrigger(request[r].object)
         /\ Has(request[r].object, "spec")
         /\ ~Has(request[r].object.spec, "containers")
         /\ Provisioned(r))
        => (result[r].status = OK /\ Mutating(r))

\* C9 (as claimed): every request whose provisioning did not fail is
\* answered with allowed = true and the uid of the request.
C9_AlwaysAllowed ==
    \A r \in Reqs :
        (pc[r] = "done" /\ (calls[r] = <<>> \/ Provisioned(r)))
        => /\ result[r].status = OK
           /\ result[r].response.allowed = TRUE
           /\ result[r].response.uid = request[r].uid

\* C10: a request whose object is not triggered makes no outgoing call, and
\* no step removes a ConfigMap or changes its data: the cluster only changes
\* by the create of a triggered request adding a ConfigMap.
C10_UntriggeredTouchesNothing ==
    /\ [](\A r \in Reqs :
            (pc[r] # "idle" /\ ~CarriesTrigger(request[r].object)) => calls[r] = <<>>)
    /\ [][/\ configmaps \subseteq configmaps'
          /\ configmaps' # configmaps
             => \E r \in Reqs : /\ pc[r] = "create"
                                /\ pc'[r] = "done"
                                /\ CarriesTrigger(request[r].object)]_vars

C10_Witness ==
    \E r \in Reqs :
        /\ pc[r] = "done"
        /\ ~CarriesTrigger(request[r].object)
        /\ configmaps # {}

====
